---- MODULE Spec2Model ----
(***************************************************************************)
(* Model of the statement parser (backend/pdf_parser.py) and of the        *)
(* balance analytics (backend/app.py) of the MAB calculator.               *)
(*                                                                         *)
(* Text is modelled as a sequence of tokens.  A token is an atomic piece   *)
(* of a line: one whitespace character (" " or "\t"), a date string such   *)
(* as "17 Sep 2024", an amount string such as "1,000.00", a header phrase, *)
(* or a word.  The regular expressions of the parser are modelled by what  *)
(* they do on such a sequence, including the characters a match consumes.  *)
(* Amounts are counted in paise (1/100 rupee), so 1,000.00 is 100000.      *)
(***************************************************************************)
EXTENDS Integers, Sequences, FiniteSets, TLC

VARIABLES
    lines,            \* parse_transactions: text.split("\n")
    i,                \* parse_transactions: position of the for loop in lines
    header_found,     \* parse_transactions: header_found
    inside_table,     \* parse_transactions: inside_table
    current_row,      \* parse_transactions: current_row (the open block)
    transactions,     \* the transaction list (built by the parser, input of the analytics)
    pc,               \* where the running call stands
    start_date,       \* calculate_daily_balances: start_date
    end_date,         \* calculate_daily_balances: end_date
    daily_balances,   \* calculate_daily_balances: the returned map, or the raised error
    monthly_results,  \* calculate_monthly_statistics: results
    target_balance,   \* analyze_balance_maintenance: target_balance
    analysis          \* analyze_balance_maintenance: the returned classification

vars == <<lines, i, header_found, inside_table, current_row, transactions, pc,
          start_date, end_date, daily_balances, monthly_results, target_balance, analysis>>

parseVars == <<lines, i, header_found, inside_table, current_row>>
analyticsVars == <<start_date, end_date, daily_balances, monthly_results, target_balance, analysis>>

\* Longest document (number of lines) the parser is run on.
MaxLines == 3

NoValue == "none"

------------------------------------------------------------------------------
(* Text primitives *)

Whitespace == {" ", "\t"}

\* The strings that date_pattern matches, each an atomic token.
DateStrings == {"2 Jan 2024", "5 Jan 2024", "31 Jan 2024", "1 Feb 2024", "3 Feb 2024", "17 Sep 2024"}

\* The strings that the capture group [\d,]+\.\d{2} of amount_pattern matches.
AmountStrings == {"1,000.00", "2,500.00", "5,000.00", "10,000.00"}

\* float(a.replace(",", "")), in paise.
AmountValue(a) ==
    CASE a = "1,000.00"  -> 100000
      [] a = "2,500.00"  -> 250000
      [] a = "5,000.00"  -> 500000
      [] a = "10,000.00" -> 1000000

\* str.lower() on one token.
LowerToken(t) ==
    CASE t = "DEBIT"    -> "debit"
      [] t = "TRANSFER" -> "transfer"
      [] t = "PAID"     -> "paid"
      [] t = "TO"       -> "to"
      [] OTHER          -> t

Lower(s) == [k \in 1..Len(s) |-> LowerToken(s[k])]

\* pattern in s, for token sequences: s has pattern as a contiguous run.
ContainsSeq(s, pattern) ==
    \E k \in 0..(Len(s) - Len(pattern)) :
        \A j \in 1..Len(pattern) : s[k + j] = pattern[j]

\* tok in line, for a phrase that is one token.
Contains(line, tok) == \E k \in 1..Len(line) : line[k] = tok

\* not line.strip()
IsBlank(line) == \A k \in 1..Len(line) : line[k] \in Whitespace

\* all(x in line for x in ["Txn Date", "Date", "Description"]); "Date" is part of "Txn Date".
IsHeader(line) == Contains(line, "Txn Date") /\ Contains(line, "Description")

\* re.search(date_pattern, s): the leftmost date of s, NoValue when there is none.
RECURSIVE DateSearch(_)
DateSearch(s) ==
    IF s = <<>> THEN NoValue
    ELSE IF Head(s) \in DateStrings THEN Head(s)
    ELSE DateSearch(Tail(s))

\* " ".join(current_row)
RECURSIVE Join(_)
Join(row) ==
    IF row = <<>> THEN <<>>
    ELSE IF Len(row) = 1 THEN row[1]
    ELSE row[1] \o <<" ">> \o Join(Tail(row))

\* full_text.split("\n")[0]: the lines of a block hold no newline (they come from
\* text.split("\n")), and the join puts none in.
RECURSIVE FirstSplitPiece(_)
FirstSplitPiece(s) ==
    IF s = <<>> THEN <<>>
    ELSE IF Head(s) = "\n" THEN <<>>
    ELSE <<Head(s)>> \o FirstSplitPiece(Tail(s))

------------------------------------------------------------------------------
(* parse_transactions: one block to one transaction *)

\* Where amount_pattern, tried at position p of s, captures an amount; 0 when it does
\* not match there.  (?:^|\s) needs the start of the string or one whitespace
\* character before the amount, (?:\s|$) one whitespace character or the end after it.
AmountMatchAt(s, p) ==
    LET bounded(q) == q <= Len(s) /\ s[q] \in AmountStrings
                      /\ (q = Len(s) \/ s[q + 1] \in Whitespace)
    IN  IF p = 1 /\ bounded(1) THEN 1
        ELSE IF s[p] \in Whitespace /\ bounded(p + 1) THEN p + 1
        ELSE 0

\* The last position a match that captured the amount at q consumes: the whitespace
\* character after the amount belongs to the match.
AmountMatchEnd(s, q) == IF q < Len(s) THEN q + 1 ELSE q

\* re.findall(amount_pattern, s) from position p on: the matches do not overlap, the
\* search goes on after the last character of the previous match.
RECURSIVE FindAllAmounts(_, _)
FindAllAmounts(s, p) ==
    IF p > Len(s) THEN <<>>
    ELSE LET q == AmountMatchAt(s, p)
         IN  IF q = 0 THEN FindAllAmounts(s, p + 1)
             ELSE <<s[q]>> \o FindAllAmounts(s, AmountMatchEnd(s, q) + 1)

\* amounts = [float(a.replace(",", "")) for a in re.findall(amount_pattern, full_text) if a]
Amounts(full_text) ==
    LET found == FindAllAmounts(full_text, 1)
    IN  [k \in 1..Len(found) |-> AmountValue(found[k])]

DebitKeywords == {<<"debit">>, <<"transfer", " ", "to">>, <<"paid", " ", "to">>}

\* any(x in full_text.lower() for x in ["debit", "transfer to", "paid to"])
IsDebit(full_text) == \E x \in DebitKeywords : ContainsSeq(Lower(full_text), x)

\* BlockFigures with a single amount booked as a credit too.
BlockFigures_SingleAsCredit(full_text) ==
    LET amounts == Amounts(full_text)
        n == Len(amounts)
    IN  IF n = 0 THEN [debit |-> 0, credit |-> 0, balance |-> 0]
        ELSE IF IsDebit(full_text)
             THEN [debit |-> amounts[IF n > 1 THEN n - 1 ELSE n], credit |-> 0, balance |-> amounts[n]]
             ELSE [debit |-> 0, credit |-> amounts[IF n > 1 THEN n - 1 ELSE n], balance |-> amounts[n]]

\* debit, credit and balance of a block, from the amounts found in its text.
BlockFigures(full_text) ==
    LET amounts == Amounts(full_text)
        n == Len(amounts)
    IN  IF n = 0 THEN [debit |-> 0, credit |-> 0, balance |-> 0]
        ELSE IF n = 1 THEN [debit |-> 0, credit |-> 0, balance |-> amounts[n]]
        ELSE IF IsDebit(full_text)
             THEN [debit |-> amounts[n - 1], credit |-> 0, balance |-> amounts[n]]
             ELSE [debit |-> 0, credit |-> amounts[n - 1], balance |-> amounts[n]]

\* The transaction built inside the loop, when the line of the next block is read:
\* date_str is taken from date_match, the match on the line being read.
LoopTransaction(row, date_match) ==
    LET full_text == Join(row)
        f == BlockFigures(full_text)
    IN  [date |-> date_match, debit |-> f.debit, credit |-> f.credit,
         balance |-> f.balance, description |-> FirstSplitPiece(full_text)]

\* The transaction built after the loop for the block still open: its date is
\* searched in the block's own text, and the record carries an "amount" key.
LastTransaction(row) ==
    LET full_text == Join(row)
        f == BlockFigures(full_text)
    IN  [date |-> DateSearch(full_text), debit |-> f.debit, credit |-> f.credit,
         balance |-> f.balance,
         amount |-> IF f.debit > 0 THEN 0 - f.debit ELSE f.credit,
         description |-> FirstSplitPiece(full_text)]

------------------------------------------------------------------------------
(* parse_transactions: the loop over the lines *)

\* The lines a statement is made of.
LineCatalog == {
    <<"Txn Date", " ", "Description">>,
    <<"Txn Date", " ", "5 Jan 2024">>,
    <<"\t">>,
    <<"17 Sep 2024", " ", "w", " ", "1,000.00", " ", "5,000.00">>,
    <<"2 Jan 2024", "\t", "transfer", " ", "to", " ", "w", " ", "2,500.00", " ", "10,000.00">>,
    <<"5 Jan 2024", " ", "DEBIT", " ", "1,000.00", " ", "w", " ", "2,500.00">>,
    <<"17 Sep 2024", " ", "1,000.00", " ", "\t", "5,000.00">>,
    <<"2 Jan 2024", " ", "w">>,
    <<"5 Jan 2024", " ", "5,000.00">>,
    <<"w">>,
    <<"10,000.00">>,
    <<"paid", " ", "to", " ", "w", "2,500.00">> }

Documents == UNION {[1..n -> LineCatalog] : n \in 0..MaxLines}

NoAnalytics ==
    /\ start_date = NoValue
    /\ end_date = NoValue
    /\ daily_balances = NoValue
    /\ monthly_results = NoValue
    /\ target_balance = NoValue
    /\ analysis = NoValue

ParseInit ==
    /\ lines \in Documents
    /\ i = 1
    /\ header_found = FALSE
    /\ inside_table = FALSE
    /\ current_row = <<>>
    /\ transactions = <<>>
    /\ pc = "loop"
    /\ NoAnalytics

InLoop == pc = "loop" /\ i <= Len(lines)

Advance == i' = i + 1 /\ pc' = pc /\ lines' = lines /\ UNCHANGED analyticsVars

\* if not header_found and all(...): header_found = True; continue
HeaderLine ==
    /\ InLoop
    /\ ~header_found /\ IsHeader(lines[i])
    /\ header_found' = TRUE
    /\ UNCHANGED <<inside_table, current_row, transactions>>
    /\ Advance

\* if not header_found: continue
PreambleLine ==
    /\ InLoop
    /\ ~header_found /\ ~IsHeader(lines[i])
    /\ UNCHANGED <<header_found, inside_table, current_row, transactions>>
    /\ Advance

\* if not line.strip() or "Txn Date" in line: continue
SkippedLine ==
    /\ InLoop
    /\ header_found
    /\ IsBlank(lines[i]) \/ Contains(lines[i], "Txn Date")
    /\ UNCHANGED <<header_found, inside_table, current_row, transactions>>
    /\ Advance

Kept(line) == ~IsBlank(line) /\ ~Contains(line, "Txn Date")

\* if date_match: the open block, if any, becomes a transaction; the line opens a block
DateLine ==
    /\ InLoop
    /\ header_found /\ Kept(lines[i])
    /\ DateSearch(lines[i]) # NoValue
    /\ transactions' = IF current_row # <<>>
                       THEN Append(transactions, LoopTransaction(current_row, DateSearch(lines[i])))
                       ELSE transactions
    /\ current_row' = <<lines[i]>>
    /\ inside_table' = TRUE
    /\ UNCHANGED header_found
    /\ Advance

\* elif inside_table and line.strip(): current_row.append(line)
ContinuationLine ==
    /\ InLoop
    /\ header_found /\ Kept(lines[i])
    /\ DateSearch(lines[i]) = NoValue
    /\ inside_table
    /\ current_row' = Append(current_row, lines[i])
    /\ UNCHANGED <<header_found, inside_table, transactions>>
    /\ Advance

\* a line with no date while no block is open falls through both branches
StrayLine ==
    /\ InLoop
    /\ header_found /\ Kept(lines[i])
    /\ DateSearch(lines[i]) = NoValue
    /\ ~inside_table
    /\ UNCHANGED <<header_found, inside_table, current_row, transactions>>
    /\ Advance

\* LastBlock without the processing of the block still open.
LastBlock_Dropped ==
    /\ pc = "loop" /\ i > Len(lines)
    /\ pc' = "parsed"
    /\ UNCHANGED <<transactions, parseVars, analyticsVars>>

\* after the loop: if current_row: ... if date_match: transactions.append(transaction)
LastBlock ==
    /\ pc = "loop" /\ i > Len(lines)
    /\ transactions' = IF current_row # <<>> /\ DateSearch(Join(current_row)) # NoValue
                       THEN Append(transactions, LastTransaction(current_row))
                       ELSE transactions
    /\ pc' = "parsed"
    /\ UNCHANGED <<parseVars, analyticsVars>>

ParseNext ==
    \/ HeaderLine
    \/ PreambleLine
    \/ SkippedLine
    \/ DateLine
    \/ ContinuationLine
    \/ StrayLine
    \/ LastBlock

ParseSpec == ParseInit /\ [][ParseNext]_vars

------------------------------------------------------------------------------
(* The blocks of a document, as the design defines them: what the parser's     *)
(* result is compared with.                                                    *)

\* Index of the first header line of doc, 0 when it has none.
FirstHeader(doc) ==
    IF \E h \in 1..Len(doc) : IsHeader(doc[h])
    THEN CHOOSE h \in 1..Len(doc) :
             IsHeader(doc[h]) /\ \A g \in 1..(h - 1) : ~IsHeader(doc[g])
    ELSE 0

\* A line that opens a block: after the first header, not blank, not a header
\* repetition (a line holding "Txn Date"), and matching the date pattern.
Opens(doc, k) ==
    /\ FirstHeader(doc) # 0 /\ k > FirstHeader(doc)
    /\ Kept(doc[k])
    /\ DateSearch(doc[k]) # NoValue

\* The indices of the opening lines of doc from line k on, in document order.
RECURSIVE OpeningFrom(_, _)
OpeningFrom(doc, k) ==
    IF k > Len(doc) THEN <<>>
    ELSE IF Opens(doc, k) THEN <<k>> \o OpeningFrom(doc, k + 1)
    ELSE OpeningFrom(doc, k + 1)

Opening(doc) == OpeningFrom(doc, 1)

\* The lines of the n-th block: from its opening line to just before the next
\* opening line or the end of input, without the skipped lines.
BlockLines(doc, n) ==
    LET idx == Opening(doc)
        last == IF n < Len(idx) THEN idx[n + 1] - 1 ELSE Len(doc)
    IN  SelectSeq(SubSeq(doc, idx[n], last), Kept)

BlockText(doc, n) == Join(BlockLines(doc, n))

Parsed == pc = "parsed"

\* The transactions that have a block of their own to be compared with.
Paired == 1..(IF Len(transactions) < Len(Opening(lines))
              THEN Len(transactions) ELSE Len(Opening(lines)))

\* The text ends with two amounts separated by one whitespace character, the
\* earlier one preceded by whitespace.
EndsWithAdjacentAmounts(t) ==
    /\ Len(t) >= 4
    /\ t[Len(t)] \in AmountStrings
    /\ t[Len(t) - 1] \in Whitespace
    /\ t[Len(t) - 2] \in AmountStrings
    /\ t[Len(t) - 3] \in Whitespace

\* C1: a block whose text ends with two amounts separated by a single whitespace
\* character yields balance = the later amount and transaction amount = the earlier
\* one, booked as credit (debit 0) when the text has no debit keyword and as debit
\* (credit 0) when it contains "transfer to".
C1_AdjacentAmountsBothExtracted ==
    Parsed =>
        \A n \in Paired :
            LET t == BlockText(lines, n)
                tr == transactions[n]
                earlier == AmountValue(t[Len(t) - 2])
                later == AmountValue(t[Len(t)])
            IN  EndsWithAdjacentAmounts(t) =>
                    /\ tr.balance = later
                    /\ (~IsDebit(t)) => (tr.credit = earlier /\ tr.debit = 0)
                    /\ ContainsSeq(t, <<"transfer", " ", "to">>)
                           => (tr.debit = earlier /\ tr.credit = 0)

\* C2: the date of every transaction is the date matched on the line that opened
\* the transaction's own block.
C2_DateOfOwnBlock ==
    Parsed =>
        \A n \in Paired :
            transactions[n].date = DateSearch(lines[Opening(lines)[n]])

\* C3: with m the amounts matched in the block: no amount gives debit = credit =
\* balance = 0; one amount gives balance = it and debit = credit = 0; two or more
\* give balance = the last one and the one before it as debit when the lower-cased
\* text contains a debit keyword, as credit otherwise; debit and credit are never
\* both nonzero.
C3_FiguresByAmountCount ==
    Parsed =>
        \A n \in Paired :
            LET t == BlockText(lines, n)
                m == Amounts(t)
                tr == transactions[n]
                keyword == \E x \in {<<"debit">>, <<"transfer", " ", "to">>, <<"paid", " ", "to">>} :
                               ContainsSeq(Lower(t), x)
            IN  /\ Len(m) = 0 => (tr.debit = 0 /\ tr.credit = 0 /\ tr.balance = 0)
                /\ Len(m) = 1 => (tr.debit = 0 /\ tr.credit = 0 /\ tr.balance = m[1])
                /\ Len(m) >= 2 =>
                       /\ tr.balance = m[Len(m)]
                       /\ keyword => (tr.debit = m[Len(m) - 1] /\ tr.credit = 0)
                       /\ ~keyword => (tr.credit = m[Len(m) - 1] /\ tr.debit = 0)
                /\ ~(tr.debit # 0 /\ tr.credit # 0)

\* A parsed document with a block of two or more matched amounts booked as debit,
\* found through an upper-case keyword.
C3_Witness ==
    /\ Parsed
    /\ \E n \in Paired :
           /\ Len(Amounts(BlockText(lines, n))) >= 2
           /\ transactions[n].debit > 0
           /\ Contains(BlockText(lines, n), "DEBIT")

C11_DescriptionIsFirstLine ==
    Parsed =>
        \A n \in Paired :
            transactions[n].description = BlockLines(lines, n)[1]

\* The five fields of a transaction.
TransactionFields == {"date", "debit", "credit", "balance", "description"}

\* C12: every record of the result has the same set of fields: date, debit, credit,
\* balance, description.
C12_SameFields ==
    Parsed =>
        \A n \in 1..Len(transactions) :
            DOMAIN transactions[n] = TransactionFields

------------------------------------------------------------------------------
(* Dates: datetime.strptime, timedelta, strftime *)

\* The day, month name and year a date string is made of.
DateParts(s) ==
    CASE s = "2 Jan 2024"  -> <<2, "Jan", 2024>>
      [] s = "5 Jan 2024"  -> <<5, "Jan", 2024>>
      [] s = "31 Jan 2024" -> <<31, "Jan", 2024>>
      [] s = "1 Feb 2024"  -> <<1, "Feb", 2024>>
      [] s = "3 Feb 2024"  -> <<3, "Feb", 2024>>
      [] s = "17 Sep 2024" -> <<17, "Sep", 2024>>

\* %b
MonthNumber(name) ==
    CASE name = "Jan" -> 1 [] name = "Feb" -> 2 [] name = "Mar" -> 3
      [] name = "Apr" -> 4 [] name = "May" -> 5 [] name = "Jun" -> 6
      [] name = "Jul" -> 7 [] name = "Aug" -> 8 [] name = "Sep" -> 9
      [] name = "Oct" -> 10 [] name = "Nov" -> 11 [] name = "Dec" -> 12

\* datetime.strptime(s, '%d %b %Y'): a datetime at midnight.
Strptime(s) ==
    [year |-> DateParts(s)[3], month |-> MonthNumber(DateParts(s)[2]), day |-> DateParts(s)[1]]

IsLeap(y) == (y % 4 = 0) /\ ((y % 100 # 0) \/ (y % 400 = 0))

DaysInMonth(y, m) ==
    IF m = 2 THEN (IF IsLeap(y) THEN 29 ELSE 28)
    ELSE IF m \in {4, 6, 9, 11} THEN 30
    ELSE 31

RECURSIVE DaysBeforeMonth(_, _)
DaysBeforeMonth(y, m) ==
    IF m = 1 THEN 0 ELSE DaysBeforeMonth(y, m - 1) + DaysInMonth(y, m - 1)

\* date.toordinal(): the number of the day, 1 Jan of year 1 being day 1.
Ordinal(d) ==
    LET y == d.year - 1
    IN  y * 365 + (y \div 4) - (y \div 100) + (y \div 400)
        + DaysBeforeMonth(d.year, d.month) + d.day

\* d + timedelta(days=1)
NextDay(d) ==
    IF d.day < DaysInMonth(d.year, d.month) THEN [d EXCEPT !.day = d.day + 1]
    ELSE IF d.month < 12 THEN [d EXCEPT !.month = d.month + 1, !.day = 1]
    ELSE [year |-> d.year + 1, month |-> 1, day |-> 1]

\* d.strftime('%Y-%m-%d'): the key of a day in the map.
Strftime(d) == <<d.year, d.month, d.day>>

\* d1 <= d2 for datetimes at midnight.
DateLeq(d1, d2) == Ordinal(d1) <= Ordinal(d2)

------------------------------------------------------------------------------
(* calculate_daily_balances *)

IndexError == "IndexError"

\* How a call ends: it returns a value, or it raises an error and returns nothing.
Returned(v) == [error |-> NoValue, value |-> v]
Raised(e) == [error |-> e]

\* sorted(transactions, key=lambda x: datetime.strptime(x['date'], '%d %b %Y')):
\* the sort is stable, t goes after the transactions of its own date.
RECURSIVE InsertByDate(_, _)
InsertByDate(sorted, t) ==
    IF sorted = <<>> THEN <<t>>
    ELSE IF Ordinal(Strptime(t.date)) < Ordinal(Strptime(Head(sorted).date))
         THEN <<t>> \o sorted
         ELSE <<Head(sorted)>> \o InsertByDate(Tail(sorted), t)

RECURSIVE SortedByDate(_)
SortedByDate(trans) ==
    IF trans = <<>> THEN <<>>
    ELSE InsertByDate(SortedByDate(SubSeq(trans, 1, Len(trans) - 1)), trans[Len(trans)])

\* [t for t in sorted_trans if strptime(t['date']).date() == current_date.date()]
DaysTransactions(sorted_trans, current_date) ==
    LET OnDay(t) == Strptime(t.date) = current_date
    IN  SelectSeq(sorted_trans, OnDay)

\* DayBalance with the first transaction of the day instead of the last one.
DayBalance_FirstOfDay(days_transactions) == days_transactions[1].balance

\* float(days_transactions[-1]['balance'])
DayBalance(days_transactions) == days_transactions[Len(days_transactions)].balance

\* daily_balances[key] = value
Put(map, key, value) ==
    [k \in (DOMAIN map) \cup {key} |-> IF k = key THEN value ELSE map[k]]

\* DailyLoop that stops one day before end_date.
RECURSIVE DailyLoop_Exclusive(_, _, _, _, _)
DailyLoop_Exclusive(sorted_trans, current_date, end, current_balance, daily) ==
    IF Ordinal(current_date) >= Ordinal(end) THEN daily
    ELSE LET days_transactions == DaysTransactions(sorted_trans, current_date)
             balance == IF days_transactions # <<>>
                        THEN DayBalance(days_transactions)
                        ELSE current_balance
         IN  DailyLoop_Exclusive(sorted_trans, NextDay(current_date), end, balance,
                                 Put(daily, Strftime(current_date), balance))

\* while current_date <= end_date: ...; current_date += timedelta(days=1)
RECURSIVE DailyLoop(_, _, _, _, _)
DailyLoop(sorted_trans, current_date, end, current_balance, daily) ==
    IF ~DateLeq(current_date, end) THEN daily
    ELSE LET days_transactions == DaysTransactions(sorted_trans, current_date)
             balance == IF days_transactions # <<>>
                        THEN DayBalance(days_transactions)
                        ELSE current_balance
         IN  DailyLoop(sorted_trans, NextDay(current_date), end, balance,
                       Put(daily, Strftime(current_date), balance))

\* CalculateDailyBalances with a balance of 0 made up for an empty list.
CalculateDailyBalances_DefaultZero(trans, start, end) ==
    LET sorted_trans == SortedByDate(trans)
        seed == IF sorted_trans = <<>> THEN 0 ELSE sorted_trans[1].balance
    IN  Returned(DailyLoop(sorted_trans, start, end, seed,
                           Put(<<>>, Strftime(start), seed)))

\* calculate_daily_balances(transactions, start_date, end_date): the returned map,
\* or IndexError, which sorted_trans[0] raises on an empty list and nothing catches.
CalculateDailyBalances(trans, start, end) ==
    LET sorted_trans == SortedByDate(trans)
    IN  IF sorted_trans = <<>> THEN Raised(IndexError)
        ELSE Returned(DailyLoop(sorted_trans, start, end, sorted_trans[1].balance,
                                Put(<<>>, Strftime(start), sorted_trans[1].balance)))

\* Most transactions in a list handed to the timeline and to the analyzer.
MaxTrans == 2

\* The transaction lists of at most max transactions with the given dates and
\* balances; the analytics read the date and the balance of a transaction.
TransactionLists(dates, balances, max) ==
    UNION {[1..n -> [date : dates, balance : balances]] : n \in 0..max}

Date(y, m, d) == [year |-> y, month |-> m, day |-> d]

NoParse ==
    /\ lines = <<>>
    /\ i = 0
    /\ header_found = FALSE
    /\ inside_table = FALSE
    /\ current_row = <<>>

TimelineDates == {"2 Jan 2024", "5 Jan 2024", "31 Jan 2024", "1 Feb 2024"}
TimelineBalances == {0, 100, 300}
QueryDates == {Date(2024, 1, 1), Date(2024, 1, 2), Date(2024, 1, 6), Date(2024, 2, 2)}

TimelineInit ==
    /\ NoParse
    /\ transactions \in TransactionLists(TimelineDates, TimelineBalances, MaxTrans)
    /\ start_date \in QueryDates
    /\ end_date \in QueryDates
    /\ daily_balances = NoValue
    /\ monthly_results = NoValue
    /\ target_balance = NoValue
    /\ analysis = NoValue
    /\ pc = "calculate_daily_balances"

\* the call returns the map
DailyBalancesReturn ==
    /\ pc = "calculate_daily_balances"
    /\ CalculateDailyBalances(transactions, start_date, end_date).error = NoValue
    /\ daily_balances' = CalculateDailyBalances(transactions, start_date, end_date)
    /\ pc' = "returned"
    /\ UNCHANGED <<parseVars, transactions, start_date, end_date,
                   monthly_results, target_balance, analysis>>

\* the call raises; the caller gets the error and no map
DailyBalancesRaise ==
    /\ pc = "calculate_daily_balances"
    /\ CalculateDailyBalances(transactions, start_date, end_date).error # NoValue
    /\ daily_balances' = CalculateDailyBalances(transactions, start_date, end_date)
    /\ pc' = "raised"
    /\ UNCHANGED <<parseVars, transactions, start_date, end_date,
                   monthly_results, target_balance, analysis>>

TimelineNext == DailyBalancesReturn \/ DailyBalancesRaise

TimelineSpec == TimelineInit /\ [][TimelineNext]_vars

\* The calendar days the queried ranges lie in.
CalendarDays ==
    {d \in [year : {2024}, month : 1..2, day : 1..31] : d.day <= DaysInMonth(d.year, d.month)}

\* The calendar days of [start, end].
DaysOfRange(start, end) ==
    {d \in CalendarDays : Ordinal(start) <= Ordinal(d) /\ Ordinal(d) <= Ordinal(end)}

DayBefore(d) == CHOOSE e \in CalendarDays : Ordinal(e) = Ordinal(d) - 1

\* The positions in the list of the transactions dated d.
DatedOn(trans, d) == {k \in 1..Len(trans) : Strptime(trans[k].date) = d}

SetMax(S) == CHOOSE x \in S : \A y \in S : y <= x
SetMin(S) == CHOOSE x \in S : \A y \in S : x <= y

\* The position of the chronologically first transaction: the earliest date, and
\* the first in document order among the transactions of that date.
FirstChronological(trans) ==
    SetMin({k \in 1..Len(trans) :
               \A j \in 1..Len(trans) :
                   Ordinal(Strptime(trans[k].date)) <= Ordinal(Strptime(trans[j].date))})

ScenarioC ==
    /\ transactions = <<[date |-> "2 Jan 2024", balance |-> 100],
                        [date |-> "5 Jan 2024", balance |-> 300]>>
    /\ start_date = Date(2024, 1, 1)
    /\ end_date = Date(2024, 1, 6)

\* C4: for start <= end and a non-empty list, each day of [start, end] gets the
\* balance of the last transaction in document order dated that day; with no
\* transaction that day, the value of the day before; and on the start day with no
\* transaction, the balance of the chronologically first transaction.  Transactions
\* on 2 Jan (100) and 5 Jan (300) queried for 1-6 Jan give 100 for days 1-4 and 300
\* for days 5-6.
C4_CarryForward ==
    (pc = "returned" /\ DateLeq(start_date, end_date)) =>
        LET map == daily_balances.value
        IN  /\ \A d \in DaysOfRange(start_date, end_date) :
                   LET dated == DatedOn(transactions, d)
                   IN  map[Strftime(d)] =
                           IF dated # {} THEN transactions[SetMax(dated)].balance
                           ELSE IF d = start_date
                                THEN transactions[FirstChronological(transactions)].balance
                                ELSE map[Strftime(DayBefore(d))]
            /\ ScenarioC =>
                   /\ \A day \in 1..4 : map[<<2024, 1, day>>] = 100
                   /\ \A day \in 5..6 : map[<<2024, 1, day>>] = 300

\* The timeline of Scenario C has been returned.
C4_Witness == pc = "returned" /\ ScenarioC

\* C5 as stated: for any start and end, the map has exactly (end - start).days + 1
\* entries, one key per calendar day of [start, end] and no other key.
C5_OneEntryPerDay_AnyDates ==
    pc = "returned" =>
        /\ DOMAIN daily_balances.value = {Strftime(d) : d \in DaysOfRange(start_date, end_date)}
        /\ Cardinality(DOMAIN daily_balances.value) = Ordinal(end_date) - Ordinal(start_date) + 1

\* C5, amended: for start <= end, the map has exactly (end - start).days + 1
\* entries, one key per calendar day of [start, end] and no other key; for start
\* after end it has the one entry of the start day.
C5_OneEntryPerDay ==
    pc = "returned" =>
        IF DateLeq(start_date, end_date)
        THEN /\ DOMAIN daily_balances.value =
                    {Strftime(d) : d \in DaysOfRange(start_date, end_date)}
             /\ Cardinality(DOMAIN daily_balances.value) =
                    Ordinal(end_date) - Ordinal(start_date) + 1
        ELSE DOMAIN daily_balances.value = {Strftime(start_date)}

\* A timeline over a month boundary has been returned: 1 Jan to 2 Feb, 33 days.
C5_Witness ==
    /\ pc = "returned"
    /\ start_date = Date(2024, 1, 1) /\ end_date = Date(2024, 2, 2)
    /\ Cardinality(DOMAIN daily_balances.value) = 33

\* C9: the call on an empty list ends with the error, whatever the dates: it
\* returns no map.
C9_EmptyListRaises ==
    (transactions = <<>> /\ pc # "calculate_daily_balances") =>
        /\ pc = "raised"
        /\ daily_balances.error = IndexError
        /\ DOMAIN daily_balances = {"error"}

\* The call on an empty list, with start after end, has ended.
C9_Witness ==
    /\ transactions = <<>>
    /\ pc = "raised"
    /\ ~DateLeq(start_date, end_date)

------------------------------------------------------------------------------
(* calculate_monthly_statistics *)

\* f"{date.year}-{date.month:02d}"
MonthKey(d) == <<d.year, d.month>>

MonthKeys(trans) == {MonthKey(Strptime(trans[k].date)) : k \in 1..Len(trans)}

\* monthly_transactions[month_key]: the transactions of the month, in document order.
MonthTransactions(trans, key) ==
    LET InMonth(t) == MonthKey(Strptime(t.date)) = key
    IN  SelectSeq(trans, InMonth)

\* min(month_dates) and max(month_dates)
EarliestDate(trans) ==
    Strptime(trans[CHOOSE k \in 1..Len(trans) :
                       \A j \in 1..Len(trans) :
                           Ordinal(Strptime(trans[k].date)) <= Ordinal(Strptime(trans[j].date))].date)
LatestDate(trans) ==
    Strptime(trans[CHOOSE k \in 1..Len(trans) :
                       \A j \in 1..Len(trans) :
                           Ordinal(Strptime(trans[j].date)) <= Ordinal(Strptime(trans[k].date))].date)

\* MonthRange with the first and the last day of the calendar month.
MonthRange_Calendar(month_trans) ==
    LET d == EarliestDate(month_trans)
    IN  [start |-> [d EXCEPT !.day = 1],
         end |-> [d EXCEPT !.day = DaysInMonth(d.year, d.month)]]

\* month_start, month_end
MonthRange(month_trans) ==
    [start |-> EarliestDate(month_trans), end |-> LatestDate(month_trans)]

\* sum(balances), min(balances), max(balances) over the values of a map
RECURSIVE SumOver(_, _)
SumOver(map, keys) ==
    IF keys = {} THEN 0
    ELSE LET k == CHOOSE x \in keys : TRUE
         IN  map[k] + SumOver(map, keys \ {k})

Values(map) == {map[k] : k \in DOMAIN map}

\* round(total / count, 2) for total and the result in paise: the nearest whole
\* number of paise.  At an exact half the outcome depends on the binary floating
\* point value of the quotient; tie_up says which way it falls.
RoundedQuotient(total, count, tie_up) ==
    LET q == total \div count
        r == total % count
    IN  IF 2 * r < count THEN q
        ELSE IF 2 * r > count THEN q + 1
        ELSE IF tie_up THEN q + 1 ELSE q

\* results[month] for one month
MonthStatistic(month_trans, tie_up) ==
    LET range == MonthRange(month_trans)
        daily == CalculateDailyBalances(month_trans, range.start, range.end).value
        total == SumOver(daily, DOMAIN daily)
        count == Cardinality(DOMAIN daily)
        avg == RoundedQuotient(total, count, tie_up)
    IN  [min_balance |-> SetMin(Values(daily)),
         max_balance |-> SetMax(Values(daily)),
         avg_balance |-> avg,
         days_maintained |-> count,
         daily_balances |-> daily,
         mab_calculation |-> [sum_of_daily_balances |-> total, number_of_days |-> count]]

\* calculate_monthly_statistics(transactions): the results, keyed by month; the
\* empty map for an empty list.
CalculateMonthlyStatistics(trans, tie) ==
    [key \in MonthKeys(trans) |-> MonthStatistic(MonthTransactions(trans, key), tie[key])]

\* Most transactions in a list handed to the monthly statistics.
MaxMonthTrans == 3

MonthlyDates == {"2 Jan 2024", "5 Jan 2024", "1 Feb 2024", "3 Feb 2024"}
MonthlyBalances == {100, 300, 302}

MonthlyInit ==
    /\ NoParse
    /\ transactions \in TransactionLists(MonthlyDates, MonthlyBalances, MaxMonthTrans)
    /\ start_date = NoValue
    /\ end_date = NoValue
    /\ daily_balances = NoValue
    /\ monthly_results = NoValue
    /\ target_balance = NoValue
    /\ analysis = NoValue
    /\ pc = "calculate_monthly_statistics"

\* if not transactions: return {}
MonthlyStatisticsEmpty ==
    /\ pc = "calculate_monthly_statistics"
    /\ transactions = <<>>
    /\ monthly_results' = <<>>
    /\ pc' = "returned"
    /\ UNCHANGED <<parseVars, transactions, start_date, end_date, daily_balances,
                   target_balance, analysis>>

\* the statistics of every month of the list
MonthlyStatisticsCall ==
    /\ pc = "calculate_monthly_statistics"
    /\ transactions # <<>>
    /\ \E tie \in [MonthKeys(transactions) -> BOOLEAN] :
           monthly_results' = CalculateMonthlyStatistics(transactions, tie)
    /\ pc' = "returned"
    /\ UNCHANGED <<parseVars, transactions, start_date, end_date, daily_balances,
                   target_balance, analysis>>

MonthlyNext == MonthlyStatisticsEmpty \/ MonthlyStatisticsCall

MonthlySpec == MonthlyInit /\ [][MonthlyNext]_vars

\* The positions of the transactions of a month.
InMonthOf(trans, key) == {k \in 1..Len(trans) : MonthKey(Strptime(trans[k].date)) = key}

\* The ordinals of the earliest and of the latest transaction date of a month.
FirstOrdinal(trans, key) == SetMin({Ordinal(Strptime(trans[k].date)) : k \in InMonthOf(trans, key)})
LastOrdinal(trans, key) == SetMax({Ordinal(Strptime(trans[k].date)) : k \in InMonthOf(trans, key)})

\* C6: for every month of the result, the day count is the number of days from the
\* earliest to the latest transaction date of the month, inclusive; avg_balance is
\* the sum of the month's daily balances divided by that count, to the nearest
\* paisa (2 decimals); and the month's timeline has the days of that span only,
\* each with a balance of a transaction of that month.
C6_MabOverSpannedDays ==
    (pc = "returned" /\ transactions # <<>>) =>
        /\ DOMAIN monthly_results = MonthKeys(transactions)
        /\ \A key \in DOMAIN monthly_results :
               LET r == monthly_results[key]
                   first == FirstOrdinal(transactions, key)
                   last == LastOrdinal(transactions, key)
                   span == last - first + 1
                   total == SumOver(r.daily_balances, DOMAIN r.daily_balances)
                   diff == r.avg_balance * span - total
               IN  /\ r.days_maintained = span
                   /\ r.mab_calculation.number_of_days = span
                   /\ r.mab_calculation.sum_of_daily_balances = total
                   /\ 2 * diff <= span /\ 2 * (0 - diff) <= span
                   /\ DOMAIN r.daily_balances =
                          {Strftime(d) : d \in {e \in CalendarDays :
                                                   first <= Ordinal(e) /\ Ordinal(e) <= last}}
                   /\ Values(r.daily_balances) \subseteq
                          {transactions[k].balance : k \in InMonthOf(transactions, key)}

\* Statistics of two months have been returned, one month spanning more than one
\* day and fewer days than the calendar month has.
C6_Witness ==
    /\ pc = "returned"
    /\ transactions # <<>>
    /\ Cardinality(DOMAIN monthly_results) = 2
    /\ \E key \in DOMAIN monthly_results :
           /\ monthly_results[key].days_maintained > 1
           /\ monthly_results[key].days_maintained < DaysInMonth(key[1], key[2])

------------------------------------------------------------------------------
(* analyze_balance_maintenance *)

\* A number kept as an exact fraction num / den, den > 0: the averages and the
\* figures derived from them are not rounded before they are compared.
Fraction(num, den) == [num |-> num, den |-> den]

RECURSIVE SumBalances(_)
SumBalances(trans) ==
    IF trans = <<>> THEN 0 ELSE Head(trans).balance + SumBalances(Tail(trans))

\* float(target_balance) if target_balance else 0
TargetValue(target) == IF target # 0 THEN target ELSE 0

\* Maintained with a strict comparison.
Maintained_Strict(sum, n, target) == sum > target * n

\* avg_balance >= target_balance, for avg_balance = sum / n
Maintained(sum, n, target) == sum >= target * n

\* FarAbove without the margin of one half of the target.
FarAbove_NoMargin(sum, n, target) == sum > target * n

\* avg_balance > target_balance * 1.5, for avg_balance = sum / n
FarAbove(sum, n, target) == 2 * sum > 3 * target * n

\* MonthlyDeposit with the shortfall multiplied by 3 instead of divided.
MonthlyDeposit_Tripled(sum, n, target) == Fraction(3 * (target * n - sum), n)

\* monthly_deposit = shortfall / 3, for shortfall = target_balance - sum / n
MonthlyDeposit(sum, n, target) == Fraction(target * n - sum, 3 * n)

\* max(target_balance, avg_balance + monthly_deposit), for avg_balance = sum / n:
\* both are compared and returned over the denominator n * deposit.den.
RequiredMonthlyBalance(sum, n, target, deposit) ==
    LET den == n * deposit.den
        alternative == sum * deposit.den + deposit.num * n
    IN  IF target * den >= alternative
        THEN Fraction(target * den, den)
        ELSE Fraction(alternative, den)

NoTargetStatus == "No target balance specified"
MaintainedStatus == "Target balance maintained"
BelowStatus == "Below target"

SetTargetAdvice == "Set a target balance to receive maintenance recommendations"
InvestAdvice == "Consider investing the excess funds while maintaining your target balance."
MeetingAdvice == "Great job! Your average balance is meeting the target requirement."
DepositAdvice == "please maintain a minimum balance or deposit monthly."

\* analyze_balance_maintenance(transactions, target_balance): the returned record.
\* A status or a recommendation is its fixed wording together with the figures the
\* text quotes.
AnalyzeBalanceMaintenance(trans, target) ==
    IF trans = <<>>
    THEN [average_balance |-> Fraction(0, 1),
          maintenance_status |-> [text |-> "No transactions found"],
          recommendation |-> [text |-> "Unable to provide recommendation without transaction data"]]
    ELSE
    LET n == Len(trans)
        sum == SumBalances(trans)
        balances == {trans[k].balance : k \in 1..n}
        t == TargetValue(target)
        percent == IF t > 0 THEN Fraction(100 * sum, t * n) ELSE Fraction(0, 1)
        status ==
            IF t = 0 THEN [text |-> NoTargetStatus]
            ELSE IF Maintained(sum, n, t) THEN [text |-> MaintainedStatus, percent |-> percent]
            ELSE [text |-> BelowStatus, percent |-> percent]
        shortfall == Fraction(t * n - sum, n)
        monthly_deposit == MonthlyDeposit(sum, n, t)
        required == RequiredMonthlyBalance(sum, n, t, monthly_deposit)
        recommendation ==
            IF t = 0 THEN [text |-> SetTargetAdvice]
            ELSE IF Maintained(sum, n, t)
                 THEN IF FarAbove(sum, n, t)
                      THEN [text |-> InvestAdvice, average |-> Fraction(sum, n),
                            excess |-> Fraction(sum - t * n, n)]
                      ELSE [text |-> MeetingAdvice, average |-> Fraction(sum, n), target |-> t]
                 ELSE [text |-> DepositAdvice, target |-> t,
                       required_monthly_balance |-> required,
                       monthly_deposit |-> monthly_deposit]
    IN  [average_balance |-> Fraction(sum, n),
         min_balance |-> SetMin(balances),
         max_balance |-> SetMax(balances),
         maintenance_status |-> status,
         recommendation |-> recommendation,
         target_balance |-> t,
         maintenance_percentage |-> percent,
         statement_period |-> [start |-> MonthKey(EarliestDate(trans)),
                               end |-> MonthKey(LatestDate(trans))],
         balance_difference |-> IF t * n > sum THEN Fraction(t * n - sum, n)
                                ELSE Fraction(sum - t * n, n),
         is_below_target |-> t * n > sum]

AnalyzerDates == {"2 Jan 2024", "1 Feb 2024"}
AnalyzerBalances == {8000, 12000, 16000}
Targets == {0, 8000, 10000}

AnalyzerInit ==
    /\ NoParse
    /\ transactions \in TransactionLists(AnalyzerDates, AnalyzerBalances, MaxTrans)
    /\ target_balance \in Targets
    /\ start_date = NoValue
    /\ end_date = NoValue
    /\ daily_balances = NoValue
    /\ monthly_results = NoValue
    /\ analysis = NoValue
    /\ pc = "analyze_balance_maintenance"

\* the call returns the analysis
AnalyzeCall ==
    /\ pc = "analyze_balance_maintenance"
    /\ analysis' = AnalyzeBalanceMaintenance(transactions, target_balance)
    /\ pc' = "returned"
    /\ UNCHANGED <<parseVars, transactions, start_date, end_date, daily_balances,
                   monthly_results, target_balance>>

AnalyzerNext == AnalyzeCall

AnalyzerSpec == AnalyzerInit /\ [][AnalyzerNext]_vars

Analyzed == pc = "returned" /\ transactions # <<>>

\* C7: with A the average of the balances and T >= 0 the target: T = 0 gives the
\* "no target" status; T > 0 and A >= T the "maintained" status, with the advice to
\* invest the excess exactly when A > 1.5 T and the acknowledgement otherwise;
\* T > 0 and A < T the "below target" status.  One of the three statuses results.
C7_Classification ==
    Analyzed =>
        LET n == Len(transactions)
            sum == SumBalances(transactions)
            T == target_balance
            status == analysis.maintenance_status.text
            advice == analysis.recommendation.text
        IN  /\ T = 0 => status = NoTargetStatus
            /\ (T > 0 /\ sum >= T * n) =>
                   /\ status = MaintainedStatus
                   /\ (advice = InvestAdvice) <=> (2 * sum > 3 * T * n)
                   /\ (2 * sum <= 3 * T * n) => advice = MeetingAdvice
            /\ (T > 0 /\ sum < T * n) => status = BelowStatus
            /\ status \in {NoTargetStatus, MaintainedStatus, BelowStatus}

\* The analyzer has returned for an average above 1.5 times a positive target,
\* with the advice to invest the excess.
C7_Witness ==
    /\ Analyzed
    /\ target_balance > 0
    /\ 2 * SumBalances(transactions) > 3 * target_balance * Len(transactions)
    /\ analysis.recommendation.text = InvestAdvice

ScenarioD ==
    /\ Analyzed
    /\ target_balance = 10000
    /\ SumBalances(transactions) = 12000 * Len(transactions)

\* C8 as stated: target 10000 and average 12000 give the "maintained" status and
\* the advice to invest the excess of 2000.
C8_ScenarioD_InvestExcess ==
    ScenarioD =>
        /\ analysis.maintenance_status.text = MaintainedStatus
        /\ analysis.recommendation.text = InvestAdvice
        /\ analysis.recommendation.excess.num = 2000 * analysis.recommendation.excess.den

\* C8, amended: target 10000 and average 12000 give the "maintained" status and the
\* acknowledgement that the average meets the target (12000 is not above 1.5 times
\* 10000); the advice quotes no excess.
C8_ScenarioD_Acknowledged ==
    ScenarioD =>
        /\ analysis.maintenance_status.text = MaintainedStatus
        /\ analysis.recommendation.text = MeetingAdvice
        /\ "excess" \notin DOMAIN analysis.recommendation

\* The analyzer has returned for target 10000 and two balances of average 12000.
C8_Witness == ScenarioD /\ Len(transactions) = 2

\* The call ended in the below-target branch: T > 0 and A < T.
BelowTarget ==
    /\ Analyzed
    /\ target_balance > 0
    /\ SumBalances(transactions) < target_balance * Len(transactions)

\* C13: in the below-target branch, with shortfall = T - A and monthly deposit =
\* shortfall / 3, the suggested minimum balance max(T, A + shortfall / 3) is exactly
\* T, and A + shortfall / 3 does not exceed T.
C13_RequiredBalanceIsTarget ==
    BelowTarget =>
        LET n == Len(transactions)
            sum == SumBalances(transactions)
            T == target_balance
            advice == analysis.recommendation
            required == advice.required_monthly_balance
            deposit == advice.monthly_deposit
        IN  /\ advice.text = DepositAdvice
            /\ deposit.num * 3 * n = (T * n - sum) * deposit.den
            /\ required.num = T * required.den
            /\ sum * deposit.den + deposit.num * n <= T * n * deposit.den

\* The analyzer has returned the deposit advice for two balances whose average is
\* below the target.
C13_Witness ==
    /\ BelowTarget
    /\ Len(transactions) = 2
    /\ analysis.recommendation.text = DepositAdvice

------------------------------------------------------------------------------
(* The whole program: one call of one of the four operations *)

Init == ParseInit \/ TimelineInit \/ MonthlyInit \/ AnalyzerInit

Next == ParseNext \/ TimelineNext \/ MonthlyNext \/ AnalyzerNext

Spec == Init /\ [][Next]_vars

====
